---- MODULE Spec2Model ----
(***************************************************************************)
(* Model of transcribe.py: the directory watcher (watch_directory and its  *)
(* VideoHandler.on_created callback), the per-file pipeline                *)
(* (process_video_file: transcribe, summarize, relocate, notify) and the   *)
(* helpers the pipeline calls.                                             *)
(*                                                                         *)
(* File names are triples <<stem, tag, ext>> ("a", "", ".mp4" is a.mp4;    *)
(* "a", "_transcript", ".txt" is a_transcript.txt).  Paths are triples     *)
(* <<root, folder, name>>: the watched directory is <<"w", <<"","">>, n>>, *)
(* the per-video destination folder is <<dest, <<stem, tag>>, n>>.         *)
(* None is "None" for strings and <<>> for paths.                          *)
(***************************************************************************)
EXTENDS Integers, Sequences, FiniteSets, TLC

\* ------------------------------------------------------------------ bounds
\* Number of creation events the file-system emitter delivers in one run.
MaxEvents == 2

\* ------------------------------------------------------- values and inputs
NoPath == <<>>
NoFolder == <<"", "">>
WatchDir == "w"

\* Files that may appear in the watched directory.
VideoNames == {<<"a", "", ".mp4">>, <<"a", "", ".MOV">>, <<"n", "", ".txt">>}

\* Dispatcher threads: watchdog's observer dispatches on one thread; the
\* concurrent specification delivers callbacks on two.
SerialThreadsTwoDispatchers == {1, 2}
SerialThreads == {1}
ConcurrentThreads == {1, 2}
Threads == ConcurrentThreads

\* str.lower() on the strings that occur.
Lower(s) ==
    CASE s = ".MOV" -> ".mov"
      [] s = ".MP4" -> ".mp4"
      [] s = "No specific action items identified." ->
             "no specific action items identified."
      [] s = "NO ACTION ITEMS" -> "no action items"
      [] OTHER -> s

\* Python truthiness of an optional string (None and "" are falsy).
Truthy(s) == s \notin {"None", ""}

\* DEFAULT_CONFIG's video_extensions, as the set the `in` test reads.
DefaultExtensions == {".mov", ".mp4", ".avi", ".mkv", ".m4v"}

\* The configurations a run may start with (load_config's result).
Configs ==
    [openai_api_key : {"", "sk"},
     destination_directory : {"", "dst"},
     slack_bot_token : {"None", "xoxb"},
     slack_channel_id : {"None", "C1"},
     slack_webhook_url : {"", "hook"},
     video_extensions : {DefaultExtensions}]

\* ------------------------------------------------------------ path helpers
\* Path(p).name
PathName(p) == p[3]

\* Path(p).stem: the name without its last suffix
PathStem(p) == <<p[3][1], p[3][2]>>

\* Path(p).suffix
PathSuffix(p) == p[3][3]

\* video_file.rsplit(".", 1)[0] + tag + ".txt": the artifact written beside
\* the source file (the source's extension is dropped).
ArtifactBeside(video_file, tag) ==
    <<video_file[1], video_file[2], <<video_file[3][1], tag, ".txt">>>>

WatchedPath(n) == <<WatchDir, NoFolder, n>>

\* Path(p).exists() on the modelled file system f (a function from the
\* existing paths to their contents).
Exists(f, p) == p \in DOMAIN f

\* open(p, "w").write(c)
WriteFile(f, p, c) == [q \in DOMAIN f \cup {p} |-> IF q = p THEN c ELSE f[q]]

\* os.unlink / an external delete
RemoveFile(f, p) == [q \in DOMAIN f \ {p} |-> f[q]]

\* Mutant of MoveFile: the file is copied and the source left behind.
MoveFileCopies(f, src, dst) ==
    [q \in DOMAIN f \cup {dst} |-> IF q = dst THEN f[src] ELSE f[q]]

\* shutil.move(src, dst) when it succeeds: dst takes src's content, replacing
\* whatever was there, and src is gone.
MoveFile(f, src, dst) ==
    [q \in (DOMAIN f \ {src}) \cup {dst} |-> IF q = dst THEN f[src] ELSE f[q]]


\* ------------------------------------------------ move_files_to_destination
\* str(video_folder): the per-video folder, as a path with an empty name.
NoName == <<"", "", "">>
VideoFolder(video_path, cfg) ==
    <<cfg.destination_directory, PathStem(video_path), NoName>>

\* video_folder / Path(p).name
InFolder(folder, p) == <<folder[1], folder[2], PathName(p)>>

\* Steps of move_files_to_destination that may raise (an input of the model):
\* 0 none, 1 video_folder.mkdir, 2 move of the video, 3 move of the
\* transcript, 4 move of the summary.
FailPoints == 0..4

\* The state after the video has been moved (step 2), or the state in which
\* step 1 or 2 raised.
MoveVideoStep(f, video_path, folder, failAt) ==
    IF failAt = 1 \/ failAt = 2 \/ ~Exists(f, video_path)
    THEN [fs |-> f, moved_files |-> <<>>, raised |-> TRUE,
          step |-> IF failAt = 1 THEN 1 ELSE 2]
    ELSE [fs |-> MoveFile(f, video_path, InFolder(folder, video_path)),
          moved_files |-> ("video" :> InFolder(folder, video_path)),
          raised |-> FALSE, step |-> 0]

\* Mutant of MoveTranscriptStep: a failing transcript move puts the video
\* back where it came from.
MoveTranscriptStepRollsBack(r, transcript_path, folder, failAt) ==
    IF r.raised \/ ~Exists(r.fs, transcript_path) THEN r
    ELSE IF failAt = 3
    THEN [r EXCEPT !.raised = TRUE, !.step = 3,
                   !.fs = MoveFile(r.fs, r.moved_files["video"],
                                   <<transcript_path[1], transcript_path[2],
                                     PathName(r.moved_files["video"])>>)]
    ELSE [fs |-> MoveFile(r.fs, transcript_path, InFolder(folder, transcript_path)),
          moved_files |-> r.moved_files @@
                          ("transcript" :> InFolder(folder, transcript_path)),
          raised |-> FALSE, step |-> 0]

\* if Path(transcript_path).exists(): shutil.move(...)
MoveTranscriptStep(r, transcript_path, folder, failAt) ==
    IF r.raised \/ ~Exists(r.fs, transcript_path) THEN r
    ELSE IF failAt = 3 THEN [r EXCEPT !.raised = TRUE, !.step = 3]
    ELSE [fs |-> MoveFile(r.fs, transcript_path, InFolder(folder, transcript_path)),
          moved_files |-> r.moved_files @@
                          ("transcript" :> InFolder(folder, transcript_path)),
          raised |-> FALSE, step |-> 0]

\* if summary_path and Path(summary_path).exists(): shutil.move(...)
MoveSummaryStep(r, summary_path, folder, failAt) ==
    IF r.raised \/ summary_path = NoPath THEN r
    ELSE IF ~Exists(r.fs, summary_path) THEN r
    ELSE IF failAt = 4 THEN [r EXCEPT !.raised = TRUE, !.step = 4]
    ELSE [fs |-> MoveFile(r.fs, summary_path, InFolder(folder, summary_path)),
          moved_files |-> r.moved_files @@
                          ("summary" :> InFolder(folder, summary_path)),
          raised |-> FALSE, step |-> 0]

\* move_files_to_destination(video_path, transcript_path, summary_path, config)
\* on file system f: the file system it leaves, the mapping it returns,
\* whether it raised (the mapping is not returned then) and at which step.
move_files_to_destination(f, video_path, transcript_path, summary_path, cfg, failAt) ==
    LET folder == VideoFolder(video_path, cfg)
        r1 == MoveVideoStep(f, video_path, folder, failAt)
        r2 == MoveTranscriptStep(r1, transcript_path, folder, failAt)
        r3 == MoveSummaryStep(r2, summary_path, folder, failAt)
    IN  IF r3.raised THEN r3
        ELSE [r3 EXCEPT !.moved_files = @ @@ ("folder" :> folder)]

\* --------------------------------------------- get_google_drive_folder_url
max_retries == 10

\* What one query of the folder search may do: come back empty, come back
\* with matches, raise.
QueryResults == {"empty", "found", "raise"}

\* What the Drive API does during one lookup (an input of the model):
\* whether default() and build() succeed, and what the query of each
\* attempt would do.  The matches of attempt i have the ids <<i, 1>>,
\* <<i, 2>>, in this order.
AllDriveBehaviours ==
    [auth_ok : BOOLEAN, responses : [1..max_retries -> QueryResults]]

\* The behaviour whose first `at` queries come back empty and whose next
\* one does `what` ("auth": the authentication raises).
DriveScript(what, at) ==
    [auth_ok |-> what # "auth",
     responses |-> [i \in 1..max_retries |->
                      IF i <= at THEN "empty"
                      ELSE IF i = at + 1 /\ what # "auth" THEN what
                      ELSE "found"]]

\* The behaviours the pipeline's notifier is run against.
DriveBehaviours ==
    {DriveScript("auth", 0)} \cup
    {DriveScript(what, at) : what \in {"found", "raise"},
                             at \in {0, 1, max_retries - 1}} \cup
    {DriveScript("found", max_retries)}

\* files[0]['id'] of the result of attempt `attempt` (0-based).
FirstMatch(attempt) == <<attempt + 1, 1>>

\* Mutant of DriveLoop: the delay is waited after every empty result, the
\* last one included.
RECURSIVE DriveLoopSleepsAlways(_, _, _)
DriveLoopSleepsAlways(drive, attempt, sleeps) ==
    IF attempt >= max_retries
    THEN [url |-> "None", folder_id |-> <<>>, queries |-> attempt,
          sleeps |-> sleeps, raised |-> FALSE]
    ELSE IF drive.responses[attempt + 1] = "raise"
    THEN [url |-> "None", folder_id |-> <<>>, queries |-> attempt + 1,
          sleeps |-> sleeps, raised |-> TRUE]
    ELSE IF drive.responses[attempt + 1] = "found"
    THEN [url |-> "drive", folder_id |-> FirstMatch(attempt),
          queries |-> attempt + 1, sleeps |-> sleeps, raised |-> FALSE]
    ELSE DriveLoopSleepsAlways(drive, attempt + 1, sleeps + 1)

RECURSIVE DriveLoop(_, _, _)
\* The for-loop over range(max_retries), from `attempt` on, having slept
\* `sleeps` times so far.
DriveLoop(drive, attempt, sleeps) ==
    IF attempt >= max_retries
    THEN [url |-> "None", folder_id |-> <<>>, queries |-> attempt,
          sleeps |-> sleeps, raised |-> FALSE]
    ELSE IF drive.responses[attempt + 1] = "raise"
    THEN [url |-> "None", folder_id |-> <<>>, queries |-> attempt + 1,
          sleeps |-> sleeps, raised |-> TRUE]
    ELSE IF drive.responses[attempt + 1] = "found"
    THEN [url |-> "drive", folder_id |-> FirstMatch(attempt),
          queries |-> attempt + 1, sleeps |-> sleeps, raised |-> FALSE]
    ELSE DriveLoop(drive, attempt + 1,
                   IF attempt < max_retries - 1 THEN sleeps + 1 ELSE sleeps)

\* get_google_drive_folder_url(folder_path): its result ("None" or a Drive
\* URL, with the folder id it is built from), the number of queries issued
\* and of delays waited, and whether an exception was raised inside (the
\* function catches it and returns None).
get_google_drive_folder_url(folder_path, drive) ==
    IF ~drive.auth_ok
    THEN [url |-> "None", folder_id |-> <<>>, queries |-> 0, sleeps |-> 0,
          raised |-> TRUE]
    ELSE DriveLoop(drive, 0, 0)

\* -------------------------------------------------- send_slack_notification
\* The result of a call that returned before doing anything.
NotifierNoOp == [lookups |-> 0, queries |-> 0, posts |-> <<>>, sent |-> FALSE]

\* send_slack_notification(video_name, folder_path, title, description,
\* action_items, config): the folder lookups and the requests.post calls it
\* makes (in order), and whether it reported the notification as sent.
\* postOk: the call of requests.post succeeds (ok / 2xx).
send_slack_notification(video_name, folder_path, title, description, action_items, cfg, drive, postOk) ==
    LET bot_token == cfg.slack_bot_token
        channel_id == cfg.slack_channel_id
        webhook_url == cfg.slack_webhook_url
        found == get_google_drive_folder_url(folder_path, drive)
        folder_link == IF Truthy(found.url) THEN <<"drive", folder_path>>
                       ELSE <<"file", folder_path>>
        header_from == IF Truthy(title) THEN "title" ELSE "video_name"
        message == [header_from |-> header_from, title |-> title,
                    video_name |-> video_name, link |-> folder_link,
                    with_actions |-> action_items # <<>>]
    IN  IF ~Truthy(bot_token) /\ ~Truthy(webhook_url) THEN NotifierNoOp
        ELSE IF Truthy(bot_token) /\ Truthy(channel_id)
        THEN [lookups |-> 1, queries |-> found.queries,
              posts |-> <<[via |-> "api", target |-> channel_id, message |-> message]>>,
              sent |-> postOk]
        ELSE [lookups |-> 1, queries |-> found.queries,
              posts |-> <<[via |-> "webhook", target |-> webhook_url, message |-> message]>>,
              \* requests.post raises on a URL without a schema ("" or None)
              sent |-> postOk /\ Truthy(webhook_url)]


\* ---------------------------------------------------------------- state
VARIABLES
    config,      \* the configuration the process loaded at start
    fs,          \* the file system: existing path -> content (the name of
                 \* the video the content stems from)
    queue,       \* creation events emitted and not yet dispatched
    delivered,   \* number of events emitted so far
    processing,  \* VideoHandler.processing
    pc,          \* per dispatcher thread: where on_created stands
    file_path,   \* per dispatcher thread: on_created's file_path
    job,         \* per dispatcher thread: the pipeline run in progress
    burstInv,    \* per path: process_video_file invocations since the last
                 \* event for it that arrived with no earlier one unfinished
    call         \* one call of a function of the program outside the
                 \* watcher: the function, its arguments and, once it has
                 \* returned, its result

vars == <<config, fs, queue, delivered, processing, pc, file_path, job, burstInv,
          call>>

\* No call is being followed.
NoCall == [fn |-> "none", done |-> FALSE]

\* A thread that runs no pipeline.
IdleJob ==
    [stage |-> "Idle", sub |-> "", video |-> NoPath,
     transcript_file |-> NoPath, summary_file |-> NoPath,
     title |-> "None", description |-> "None", action_items |-> <<>>,
     moved_files |-> <<>>, relocated |-> "no", raised_at |-> 0, audio |-> FALSE,
     trace |-> <<>>, llm |-> <<>>, notified |-> NotifierNoOp, notify_calls |-> 0]

Init ==
    /\ config \in Configs
    /\ fs = <<>>
    /\ queue = <<>>
    /\ delivered = 0
    /\ processing = {}
    /\ pc = [t \in Threads |-> "idle"]
    /\ file_path = [t \in Threads |-> NoPath]
    /\ job = [t \in Threads |-> IdleJob]
    /\ burstInv = [n \in VideoNames |-> 0]
    /\ call = NoCall

\* The job enters stage s (recorded in its trace).
Enter(j, s, sub) == [j EXCEPT !.stage = s, !.sub = sub, !.trace = Append(@, s)]

\* An event for path p has been emitted and its handling has not finished.
Unfinished(p) ==
    \/ \E i \in 1..Len(queue) : ~queue[i].is_directory /\ queue[i].src_path = p
    \/ \E t \in Threads : pc[t] \in {"add", "settle", "pipeline"} /\ file_path[t] = p

\* ------------------------------------------------------- the environment
\* A file named n appears in the watched directory (or is written again)
\* and the emitter queues its creation event.
CreateFile(n) ==
    /\ delivered < MaxEvents
    /\ delivered' = delivered + 1
    /\ fs' = WriteFile(fs, WatchedPath(n), n)
    /\ queue' = Append(queue, [src_path |-> WatchedPath(n), is_directory |-> FALSE])
    /\ burstInv' = IF Unfinished(WatchedPath(n)) THEN burstInv
                   ELSE [burstInv EXCEPT ![n] = 0]
    /\ UNCHANGED <<config, processing, pc, file_path, job>>

\* Names of directories that may be created in the watched directory.
DirectoryNames == {<<"d", "", ".mp4">>}

\* A directory named n is created in the watched directory.
CreateDirectory(n) ==
    /\ delivered < MaxEvents
    /\ delivered' = delivered + 1
    /\ queue' = Append(queue, [src_path |-> WatchedPath(n), is_directory |-> TRUE])
    /\ UNCHANGED <<config, fs, processing, pc, file_path, job, burstInv>>

\* The file a handler is waiting on is removed during the settle delay.
Vanish(t) ==
    /\ pc[t] = "settle"
    /\ Exists(fs, file_path[t])
    /\ fs' = RemoveFile(fs, file_path[t])
    /\ UNCHANGED <<config, queue, delivered, processing, pc, file_path, job, burstInv>>

\* ------------------------------------------------------------ on_created
\* file_ext in config.get("video_extensions", ...), file_ext being the
\* lower-cased suffix of the path.
IsVideoFileAcceptsAll(path, cfg) == TRUE
IsVideoFile(path, cfg) == Lower(PathSuffix(path)) \in cfg.video_extensions

\* on_created up to the membership test: the event is dropped when it is a
\* directory event, when the lower-cased suffix is not allow-listed, or
\* when the path is in the processing set.
OnCreated(t) ==
    /\ pc[t] = "idle"
    /\ queue # <<>>
    /\ queue' = Tail(queue)
    /\ LET event == Head(queue)
       IN  IF event.is_directory THEN UNCHANGED <<pc, file_path>>
           ELSE IF ~IsVideoFile(event.src_path, config) THEN UNCHANGED <<pc, file_path>>
           ELSE IF event.src_path \in processing THEN UNCHANGED <<pc, file_path>>
           ELSE /\ pc' = [pc EXCEPT ![t] = "add"]
                /\ file_path' = [file_path EXCEPT ![t] = event.src_path]
    /\ UNCHANGED <<config, fs, delivered, processing, job, burstInv>>

\* self.processing.add(file_path), then the settle delay begins.
AddProcessing(t) ==
    /\ pc[t] = "add"
    /\ processing' = processing \cup {file_path[t]}
    /\ pc' = [pc EXCEPT ![t] = "settle"]
    /\ UNCHANGED <<config, fs, queue, delivered, file_path, job, burstInv>>

\* Mutant of Settle: the path of a file that is gone after the settle
\* delay stays in the processing set.
SettleWithoutDiscard(t) ==
    /\ pc[t] = "settle"
    /\ IF Exists(fs, file_path[t])
       THEN /\ pc' = [pc EXCEPT ![t] = "pipeline"]
            /\ job' = [job EXCEPT ![t] =
                         Enter([IdleJob EXCEPT !.video = file_path[t]],
                               "Transcribing", "extract")]
            /\ burstInv' = [burstInv EXCEPT ![PathName(file_path[t])] = @ + 1]
            /\ UNCHANGED <<processing, file_path>>
       ELSE /\ pc' = [pc EXCEPT ![t] = "idle"]
            /\ file_path' = [file_path EXCEPT ![t] = NoPath]
            /\ UNCHANGED <<processing, job, burstInv>>
    /\ UNCHANGED <<config, fs, queue, delivered>>

\* After the settle delay: process_video_file is entered when the file
\* exists; otherwise the path is discarded and on_created returns.
Settle(t) ==
    /\ pc[t] = "settle"
    /\ IF Exists(fs, file_path[t])
       THEN /\ pc' = [pc EXCEPT ![t] = "pipeline"]
            /\ job' = [job EXCEPT ![t] =
                         Enter([IdleJob EXCEPT !.video = file_path[t]],
                               "Transcribing", "extract")]
            /\ burstInv' = [burstInv EXCEPT ![PathName(file_path[t])] = @ + 1]
            /\ UNCHANGED <<processing, file_path>>
       ELSE /\ pc' = [pc EXCEPT ![t] = "idle"]
            /\ processing' = processing \ {file_path[t]}
            /\ file_path' = [file_path EXCEPT ![t] = NoPath]
            /\ UNCHANGED <<job, burstInv>>
    /\ UNCHANGED <<config, fs, queue, delivered>>

\* process_video_file has returned (normally or through its except
\* clause): self.processing.discard(file_path) and on_created returns.
Return(t) ==
    /\ pc[t] = "pipeline"
    /\ job[t].stage \in {"Done", "Failed"}
    /\ processing' = processing \ {file_path[t]}
    /\ pc' = [pc EXCEPT ![t] = "idle"]
    /\ file_path' = [file_path EXCEPT ![t] = NoPath]
    /\ job' = [job EXCEPT ![t] = IdleJob]
    /\ UNCHANGED <<config, fs, queue, delivered, burstInv>>


\* --------------------------------------------------------- transcribe_video
\* How a subprocess.run(..., check=True) call can end.
ToolOutcomes == {"ok", "CalledProcessError", "FileNotFoundError", "OSError"}

\* transcribe_video's except clauses call sys.exit(1) for these.
ExitsProcess(out) == out \in {"CalledProcessError", "FileNotFoundError"}

\* The job after a tool call of transcribe_video ended with `out`: on "ok"
\* it goes on with `next` (the temporary file existing or not as `audio`
\* says); otherwise the finally clause removes the temporary file and the
\* job leaves through SystemExit ("Exited") or through the exception that
\* process_video_file catches ("Failed").
\* Mutant of AfterTool: a tool call that raises an OSError is followed by
\* a new attempt of transcribe_video.
AfterToolRetries(j, out, next, audio) ==
    IF out = "ok" THEN [j EXCEPT !.sub = next, !.audio = audio]
    ELSE IF ExitsProcess(out) THEN Enter([j EXCEPT !.audio = FALSE], "Exited", "")
    ELSE Enter([j EXCEPT !.audio = FALSE], "Transcribing", "extract")

AfterToolNoFinally(j, out, next, audio) ==
    IF out = "ok" THEN [j EXCEPT !.sub = next, !.audio = audio]
    ELSE IF ExitsProcess(out) THEN Enter(j, "Exited", "")
    ELSE Enter(j, "Failed", "")

AfterTool(j, out, next, audio) ==
    IF out = "ok" THEN [j EXCEPT !.sub = next, !.audio = audio]
    ELSE IF ExitsProcess(out) THEN Enter([j EXCEPT !.audio = FALSE], "Exited", "")
    ELSE Enter([j EXCEPT !.audio = FALSE], "Failed", "")

\* SystemExit is no Exception: neither process_video_file nor on_created
\* catches it, so it ends the thread that dispatches the events.
ThreadAfter(j) == IF j.stage = "Exited" THEN "dead" ELSE "pipeline"

\* The temporary file is created and ffmpeg extracts the audio into it.
ExtractAudio(t) ==
    /\ pc[t] = "pipeline"
    /\ job[t].stage = "Transcribing" /\ job[t].sub = "extract"
    /\ \E out \in ToolOutcomes :
         LET j == AfterTool([job[t] EXCEPT !.audio = TRUE], out, "recognize", TRUE)
         IN  /\ job' = [job EXCEPT ![t] = j]
             /\ pc' = [pc EXCEPT ![t] = ThreadAfter(j)]
    /\ UNCHANGED <<config, fs, queue, delivered, processing, file_path, burstInv>>

\* whisper-cli runs on the temporary file; the finally clause removes it.
Recognize(t) ==
    /\ pc[t] = "pipeline"
    /\ job[t].stage = "Transcribing" /\ job[t].sub = "recognize"
    /\ \E out \in ToolOutcomes :
         LET j == AfterTool(job[t], out, "save", FALSE)
         IN  /\ job' = [job EXCEPT ![t] = j]
             /\ pc' = [pc EXCEPT ![t] = ThreadAfter(j)]
    /\ UNCHANGED <<config, fs, queue, delivered, processing, file_path, burstInv>>

\* ------------------------------------------------------- process_video_file
\* Mutant of AfterSummarizing: the notification is sent whether or not a
\* destination is configured.
AfterSummarizingNotifiesAnyway(j, cfg) ==
    IF Truthy(cfg.destination_directory) THEN Enter(j, "Relocating", "")
    ELSE IF Truthy(cfg.slack_webhook_url) \/ Truthy(cfg.slack_bot_token)
    THEN Enter(j, "Notifying", "")
    ELSE Enter(j, "Done", "")

\* The stage after Summarizing: relocation when a destination is configured.
AfterSummarizing(j, cfg) ==
    IF Truthy(cfg.destination_directory) THEN Enter(j, "Relocating", "")
    ELSE Enter(j, "Done", "")

\* Mutant of AfterTranscribing: the language-model calls are made whether
\* or not a key is configured.
AfterTranscribingIgnoresKey(j, cfg) == Enter(j, "Summarizing", "summary")

\* The stage after the transcript is saved: the language-model calls when
\* a key is configured, else action_items = [].
AfterTranscribing(j, cfg) ==
    IF Truthy(cfg.openai_api_key) THEN Enter(j, "Summarizing", "summary")
    ELSE AfterSummarizing([j EXCEPT !.action_items = <<>>], cfg)

\* The stage after a successful relocation.
AfterRelocating(j, cfg) ==
    IF Truthy(cfg.slack_webhook_url) \/ Truthy(cfg.slack_bot_token)
    THEN Enter(j, "Notifying", "")
    ELSE Enter(j, "Done", "")

\* The transcript is written beside the video (the write may raise).
SaveTranscript(t) ==
    /\ pc[t] = "pipeline"
    /\ job[t].stage = "Transcribing" /\ job[t].sub = "save"
    /\ \E writeOk \in BOOLEAN :
         LET transcript_file == ArtifactBeside(job[t].video, "_transcript")
         IN  IF writeOk
             THEN /\ fs' = WriteFile(fs, transcript_file, PathName(job[t].video))
                  /\ job' = [job EXCEPT ![t] =
                               AfterTranscribing(
                                 [@ EXCEPT !.transcript_file = transcript_file], config)]
             ELSE /\ fs' = fs
                  /\ job' = [job EXCEPT ![t] = Enter(@, "Failed", "")]
    /\ UNCHANGED <<config, queue, delivered, processing, pc, file_path, burstInv>>

\* What summarize_with_openai may return: None (it caught a failure), an
\* empty text, a text.
SummaryResults == {"None", "", "S"}

\* summarize_with_openai, then the summary file is written when the result
\* is truthy (the write may raise; it is not guarded).
Summarize(t) ==
    /\ pc[t] = "pipeline"
    /\ job[t].stage = "Summarizing" /\ job[t].sub = "summary"
    /\ \E summary \in SummaryResults, writeOk \in BOOLEAN :
         LET called == [job[t] EXCEPT !.llm = Append(@, "summarize")]
             summary_file == ArtifactBeside(job[t].video, "_summary")
         IN  IF ~Truthy(summary)
             THEN /\ fs' = fs
                  /\ job' = [job EXCEPT ![t] = [called EXCEPT !.sub = "title"]]
             ELSE IF writeOk
             THEN /\ fs' = WriteFile(fs, summary_file, PathName(job[t].video))
                  /\ job' = [job EXCEPT ![t] =
                               [called EXCEPT !.sub = "title",
                                              !.summary_file = summary_file]]
             ELSE /\ fs' = fs
                  /\ job' = [job EXCEPT ![t] = Enter(called, "Failed", "")]
    /\ UNCHANGED <<config, queue, delivered, processing, pc, file_path, burstInv>>

\* What generate_title_description_with_openai may return.
TitleResults == {<<"None", "None">>, <<"", "">>, <<"T", "D">>}

TitleDescription(t) ==
    /\ pc[t] = "pipeline"
    /\ job[t].stage = "Summarizing" /\ job[t].sub = "title"
    /\ \E td \in TitleResults :
         job' = [job EXCEPT ![t] =
                   [@ EXCEPT !.llm = Append(@, "title"), !.title = td[1],
                             !.description = td[2], !.sub = "actions"]]
    /\ UNCHANGED <<config, fs, queue, delivered, processing, pc, file_path, burstInv>>

\* What extract_action_items_with_openai may return.
ActionItemResults == {<<>>, <<"item">>}

ActionItems(t) ==
    /\ pc[t] = "pipeline"
    /\ job[t].stage = "Summarizing" /\ job[t].sub = "actions"
    /\ \E items \in ActionItemResults :
         job' = [job EXCEPT ![t] =
                   AfterSummarizing(
                     [@ EXCEPT !.llm = Append(@, "actions"), !.action_items = items],
                     config)]
    /\ UNCHANGED <<config, fs, queue, delivered, processing, pc, file_path, burstInv>>

\* The job after move_files_to_destination ended with result r: an
\* exception reaches the except clause of process_video_file, a normal
\* return leads to the notification test.
AfterMove(j, r, cfg) ==
    IF r.raised
    THEN Enter([j EXCEPT !.relocated = "raised", !.raised_at = r.step], "Failed", "")
    ELSE AfterRelocating([j EXCEPT !.moved_files = r.moved_files,
                                   !.relocated = "ok"], cfg)

\* The call of move_files_to_destination in process_video_file.
Relocate(t) ==
    /\ pc[t] = "pipeline"
    /\ job[t].stage = "Relocating"
    /\ \E failAt \in FailPoints :
         LET r == move_files_to_destination(fs, job[t].video, job[t].transcript_file,
                                            job[t].summary_file, config, failAt)
         IN  /\ fs' = r.fs
             /\ job' = [job EXCEPT ![t] = AfterMove(@, r, config)]
    /\ UNCHANGED <<config, queue, delivered, processing, pc, file_path, burstInv>>

\* send_slack_notification; it catches whatever fails inside.
Notify(t) ==
    /\ pc[t] = "pipeline"
    /\ job[t].stage = "Notifying"
    /\ \E drive \in DriveBehaviours, postOk \in BOOLEAN :
         LET n == send_slack_notification(PathName(job[t].video),
                                          job[t].moved_files["folder"],
                                          job[t].title, job[t].description,
                                          job[t].action_items, config, drive, postOk)
         IN  job' = [job EXCEPT ![t] =
                       Enter([@ EXCEPT !.notified = n, !.notify_calls = @ + 1],
                             "Done", "")]
    /\ UNCHANGED <<config, fs, queue, delivered, processing, pc, file_path, burstInv>>

\* --------------------------------------------------------- specifications
\* One step of dispatcher thread t.
Handler(t) ==
    \/ OnCreated(t)
    \/ AddProcessing(t)
    \/ Settle(t)
    \/ ExtractAudio(t)
    \/ Recognize(t)
    \/ SaveTranscript(t)
    \/ Summarize(t)
    \/ TitleDescription(t)
    \/ ActionItems(t)
    \/ Relocate(t)
    \/ Notify(t)
    \/ Return(t)
    \/ Vanish(t)

Environment ==
    \/ \E n \in VideoNames : CreateFile(n)
    \/ \E n \in DirectoryNames : CreateDirectory(n)

\* The watcher as watchdog runs it: one thread dispatches the events.
Next ==
    /\ UNCHANGED call
    /\ \/ Environment
       \/ \E t \in SerialThreads : Handler(t)

Spec == Init /\ [][Next]_vars

\* The handling of one creation event when every external call returns or
\* fails and the dispatching thread keeps running: a handler step that
\* stays possible is eventually taken.
InitFair ==
    /\ config \in Configs
    /\ \E n \in VideoNames :
         /\ fs = (WatchedPath(n) :> n)
         /\ queue = <<[src_path |-> WatchedPath(n), is_directory |-> FALSE]>>
    /\ delivered = 1
    /\ processing = {}
    /\ pc = [t \in Threads |-> "idle"]
    /\ file_path = [t \in Threads |-> NoPath]
    /\ job = [t \in Threads |-> IdleJob]
    /\ burstInv = [n \in VideoNames |-> 0]
    /\ call = NoCall

NextFair ==
    /\ UNCHANGED call
    /\ \E t \in SerialThreads : Handler(t)

SpecFair ==
    /\ InitFair
    /\ [][NextFair]_vars
    /\ \A t \in SerialThreads : WF_vars(UNCHANGED call /\ Handler(t))

\* The watcher with callbacks delivered on concurrent threads, started with
\* every feature configured or with none.
ConcurrentConfigs ==
    {c \in Configs :
        \/ /\ Truthy(c.openai_api_key) /\ Truthy(c.destination_directory)
           /\ Truthy(c.slack_bot_token) /\ Truthy(c.slack_channel_id)
           /\ Truthy(c.slack_webhook_url)
        \/ /\ ~Truthy(c.openai_api_key) /\ ~Truthy(c.destination_directory)
           /\ ~Truthy(c.slack_bot_token) /\ ~Truthy(c.slack_channel_id)
           /\ ~Truthy(c.slack_webhook_url)}

InitConcurrent == Init /\ config \in ConcurrentConfigs

NextConcurrent ==
    /\ UNCHANGED call
    /\ \/ Environment
       \/ \E t \in ConcurrentThreads : Handler(t)

SpecConcurrent == InitConcurrent /\ [][NextConcurrent]_vars


\* move_files_to_destination entered with any subset of the artifacts of
\* one video present and with or without a summary path.
RelocateConfigs == {c \in Configs : Truthy(c.destination_directory)}

RelocateVideos == {n \in VideoNames : Lower(n[3]) \in DefaultExtensions}

InitRelocate ==
    /\ config \in RelocateConfigs
    /\ call = NoCall
    /\ queue = <<>>
    /\ delivered = MaxEvents
    /\ burstInv = [n \in VideoNames |-> 0]
    /\ \E n \in RelocateVideos :
         LET video == WatchedPath(n)
             transcript == ArtifactBeside(video, "_transcript")
             summary == ArtifactBeside(video, "_summary")
         IN  /\ \E present \in SUBSET {video, transcript, summary} :
                  fs = [p \in present |-> n]
             /\ processing = {video}
             /\ pc = [t \in Threads |-> IF t = 1 THEN "pipeline" ELSE "idle"]
             /\ file_path = [t \in Threads |-> IF t = 1 THEN video ELSE NoPath]
             /\ \E summary_file \in
                    (IF Truthy(config.openai_api_key) THEN {NoPath, summary}
                     ELSE {NoPath}) :
                  job = [t \in Threads |->
                           IF t = 1
                           THEN [IdleJob EXCEPT
                                   !.stage = "Relocating", !.video = video,
                                   !.transcript_file = transcript,
                                   !.summary_file = summary_file,
                                   !.llm = IF Truthy(config.openai_api_key)
                                           THEN <<"summarize", "title", "actions">>
                                           ELSE <<>>,
                                   !.trace = IF Truthy(config.openai_api_key)
                                             THEN <<"Transcribing", "Summarizing",
                                                    "Relocating">>
                                             ELSE <<"Transcribing", "Relocating">>]
                           ELSE IdleJob]

NextRelocate ==
    /\ UNCHANGED call
    /\ \/ Relocate(1)
       \/ Notify(1)
       \/ Return(1)

SpecRelocate == InitRelocate /\ [][NextRelocate]_vars


\* The watcher started with allow-lists of other casings than the default.
ExtensionLists == {DefaultExtensions, {".MP4"}, {".mov", ".MP4"}}

FilterConfigs ==
    {[c EXCEPT !.video_extensions = e] :
        c \in ConcurrentConfigs, e \in ExtensionLists}

InitFilter ==
    /\ config \in FilterConfigs
    /\ fs = <<>>
    /\ queue = <<>>
    /\ delivered = 0
    /\ processing = {}
    /\ pc = [t \in Threads |-> "idle"]
    /\ file_path = [t \in Threads |-> NoPath]
    /\ job = [t \in Threads |-> IdleJob]
    /\ burstInv = [n \in VideoNames |-> 0]
    /\ call = NoCall

SpecFilter == InitFilter /\ [][Next]_vars


\* ------------------------------------------------- calls outside the watcher
\* The configuration load_config returns from DEFAULT_CONFIG's values as far
\* as the pipeline reads them.
LoadedDefaults ==
    [openai_api_key |-> "", destination_directory |-> "dst",
     slack_bot_token |-> "None", slack_channel_id |-> "None",
     slack_webhook_url |-> "", video_extensions |-> DefaultExtensions]

\* The state in which a call starts: no event, no job.
CallStart ==
    /\ config = LoadedDefaults
    /\ fs = <<>>
    /\ queue = <<>>
    /\ delivered = 0
    /\ processing = {}
    /\ pc = [t \in Threads |-> "idle"]
    /\ file_path = [t \in Threads |-> NoPath]
    /\ job = [t \in Threads |-> IdleJob]
    /\ burstInv = [n \in VideoNames |-> 0]

CallUnchanged ==
    UNCHANGED <<config, fs, queue, delivered, processing, pc, file_path, job,
                burstInv>>

\* The call has been made with result r.
Returned(r) == call' = [fn |-> call.fn, arg |-> call.arg, done |-> TRUE, result |-> r]

\* The folder of a.mp4 under the default destination.
SomeFolder == <<"dst", <<"a", "">>, NoName>>

InitDriveLookup ==
    \E d \in AllDriveBehaviours : call = [fn |-> "drive", arg |-> d, done |-> FALSE]

\* get_google_drive_folder_url is called.
CallDriveLookup ==
    /\ call.fn = "drive" /\ ~call.done
    /\ Returned(get_google_drive_folder_url(SomeFolder, call.arg))
    /\ CallUnchanged

\* ---------------------------------------------------------------- load_config
\* The keys of DEFAULT_CONFIG, and a key a user may add to the file.
DefaultKeys ==
    {"watch_directory", "destination_directory", "openai_api_key",
     "slack_webhook_url", "video_extensions", "icloud_base_url"}

ExtraKeys == {"slack_bot_token"}

\* The value DEFAULT_CONFIG gives key k, and a value a user has set for it.
DefaultValue(k) == <<"default", k>>
UserValue(k) == <<"user", k>>

DEFAULT_CONFIG == [k \in DefaultKeys |-> DefaultValue(k)]

\* The states of CONFIG_FILE: absent, present with no content, present
\* with a mapping of some keys.
ConfigDocuments ==
    {[kind |-> "absent", map |-> <<>>], [kind |-> "empty", map |-> <<>>]} \cup
    {[kind |-> "mapping", map |-> m] :
        m \in UNION {[K -> {"default", "user"}] : K \in SUBSET (DefaultKeys \cup ExtraKeys)}}

\* The mapping a document of kind "mapping" holds.
DocumentMap(doc) == [k \in DOMAIN doc.map |-> <<doc.map[k], k>>]

\* yaml.safe_load(f): None for a document without content, else its mapping.
yaml_safe_load(doc) ==
    IF doc.kind = "empty" THEN [none |-> TRUE, map |-> <<>>]
    ELSE [none |-> FALSE, map |-> DocumentMap(doc)]

\* Mutant of MergeDefaults: the defaults replace the values of the file.
MergeDefaultsOverwrites(m) ==
    [k \in DOMAIN m \cup DefaultKeys |->
        IF k \in DefaultKeys THEN DEFAULT_CONFIG[k] ELSE m[k]]

\* for key, value in DEFAULT_CONFIG.items(): if key not in config: ...
MergeDefaults(m) ==
    [k \in DOMAIN m \cup DefaultKeys |->
        IF k \in DOMAIN m THEN m[k] ELSE DEFAULT_CONFIG[k]]

\* load_config() with CONFIG_FILE in state doc: the state it leaves the
\* file in, the mapping it returns, and whether it raised instead
\* (`key not in None` raises TypeError).
load_config(doc) ==
    IF doc.kind = "absent"
    THEN [file |-> [none |-> FALSE, map |-> DEFAULT_CONFIG],
          config |-> DEFAULT_CONFIG, raised |-> FALSE]
    ELSE LET loaded == yaml_safe_load(doc)
         IN  IF loaded.none
             THEN [file |-> loaded, config |-> <<>>, raised |-> TRUE]
             ELSE [file |-> loaded, config |-> MergeDefaults(loaded.map),
                   raised |-> FALSE]

InitLoadConfig ==
    \E doc \in ConfigDocuments :
        call = [fn |-> "load_config", arg |-> doc, done |-> FALSE]

CallLoadConfig ==
    /\ call.fn = "load_config" /\ ~call.done
    /\ Returned(load_config(call.arg))
    /\ CallUnchanged

\* ------------------------------------------------------------------ configure
\* `sub in key` for the keys and the substrings configure tests.
KeyContains(key, sub) ==
    \/ sub = "api_key" /\ key = "openai_api_key"
    \/ sub = "webhook" /\ key = "slack_webhook_url"

\* The value configure prints for key with value v.
DisplayValue(key, v) ==
    IF KeyContains(key, "api_key") \/ KeyContains(key, "webhook")
    THEN (IF Truthy(v) THEN "***" ELSE "(not set)")
    ELSE v

\* The "key: value" lines configure prints for configuration cfg.
configure(cfg) == [k \in DOMAIN cfg |-> DisplayValue(k, cfg[k])]

\* The settings that hold a credential.
CredentialKeys == {"openai_api_key", "slack_webhook_url", "slack_bot_token"}

\* Configurations the config command may be run with: each credential
\* unset or set to one of two secrets.
ShownConfigs ==
    [openai_api_key : {"", "s1", "s2"},
     slack_webhook_url : {"", "s1", "s2"},
     slack_bot_token : {"", "s1", "s2"},
     watch_directory : {"Movies"}]

InitConfigure ==
    \E c1 \in ShownConfigs, c2 \in ShownConfigs :
        call = [fn |-> "configure", arg |-> <<c1, c2>>, done |-> FALSE]

\* The config command is run with each of the two configurations.
CallConfigure ==
    /\ call.fn = "configure" /\ ~call.done
    /\ Returned(<<configure(call.arg[1]), configure(call.arg[2])>>)
    /\ CallUnchanged

\* ----------------------------------------------------------------------- main
HelpCommands == {"--help", "-h", "help"}
Commands == HelpCommands \cup {"config", "setup-daemon", "watch"}

\* First and second command-line arguments, and the files that may exist.
FirstArguments == Commands \cup {"process", "a.mp4", "gone.mp4"}
SecondArguments == {"a.mp4", "gone.mp4"}
ArgumentLists ==
    {<<>>} \cup {<<a>> : a \in FirstArguments} \cup
    {<<a, b>> : a \in FirstArguments, b \in SecondArguments}
ExistingFiles == SUBSET {"a.mp4", "process"}

\* What main did: the function it dispatched to, the file or directory it
\* passed, and the status it called sys.exit with (exits FALSE: it returned).
Dispatched(does, target, exits, status) ==
    [does |-> does, target |-> target, exits |-> exits, status |-> status]

\* The states of CONFIG_FILE main is run with.
MainDocuments ==
    {[kind |-> "absent", map |-> <<>>], [kind |-> "empty", map |-> <<>>],
     [kind |-> "mapping", map |-> [k \in {"watch_directory"} |-> "user"]]}

\* config = load_config() followed by the call d: the TypeError load_config
\* raises is caught nowhere and ends the process with a traceback.
WithConfig(doc, d) ==
    IF load_config(doc).raised THEN Dispatched("TypeError", "", FALSE, 1) ELSE d

\* Mutant of main: the file is processed without testing that it exists.
mainNoExistenceTest(args, existing, doc) ==
    IF Len(args) < 1 THEN Dispatched("usage", "", TRUE, 1)
    ELSE LET command == args[1]
         IN  IF command \in HelpCommands THEN Dispatched("help", "", TRUE, 0)
             ELSE IF command = "config"
             THEN WithConfig(doc, Dispatched("configure", "", FALSE, 0))
             ELSE IF command = "setup-daemon"
             THEN WithConfig(doc, Dispatched("setup_daemon", "", FALSE, 0))
             ELSE IF command = "watch"
             THEN WithConfig(doc, Dispatched("watch_directory",
                     IF Len(args) > 1 THEN args[2]
                     ELSE load_config(doc).config["watch_directory"],
                     FALSE, 0))
             ELSE WithConfig(doc,
                     Dispatched("process_video_file", command, FALSE, 0))

\* main() with sys.argv[1:] = args, the files of `existing` present and
\* CONFIG_FILE in state doc.
main(args, existing, doc) ==
    IF Len(args) < 1 THEN Dispatched("usage", "", TRUE, 1)
    ELSE LET command == args[1]
         IN  IF command \in HelpCommands THEN Dispatched("help", "", TRUE, 0)
             ELSE IF command = "config"
             THEN WithConfig(doc, Dispatched("configure", "", FALSE, 0))
             ELSE IF command = "setup-daemon"
             THEN WithConfig(doc, Dispatched("setup_daemon", "", FALSE, 0))
             ELSE IF command = "watch"
             THEN WithConfig(doc, Dispatched("watch_directory",
                     IF Len(args) > 1 THEN args[2]
                     ELSE load_config(doc).config["watch_directory"],
                     FALSE, 0))
             ELSE IF command \notin existing
             THEN Dispatched("file_not_found", command, TRUE, 1)
             ELSE WithConfig(doc,
                     Dispatched("process_video_file", command, FALSE, 0))

InitMain ==
    \E args \in ArgumentLists, existing \in ExistingFiles, doc \in MainDocuments :
        call = [fn |-> "main",
                arg |-> [args |-> args, existing |-> existing, doc |-> doc],
                done |-> FALSE]

CallMain ==
    /\ call.fn = "main" /\ ~call.done
    /\ Returned(main(call.arg.args, call.arg.existing, call.arg.doc))
    /\ CallUnchanged

\* ------------------------------------------- extract_action_items_with_openai
\* Longest response, in lines.
MaxLines == 3

\* A line of a response is a sequence of tokens: a blank, a marker
\* character (the bullet dot is written "U+2022"), a word, or one of the
\* phrases the function looks for.
ResponseLines ==
    {<<>>,
     <<"-", " ", "x">>,
     <<"U+2022", " ", "y">>,
     <<" ", " ", "-", " ", "x", " ">>,
     <<"-">>,
     <<"U+2022", " ">>,
     <<"-", "-", "x">>,
     <<"*", " ", "x">>,
     <<"x", " ", "-", " ", "y">>,
     <<"No specific action items identified.">>,
     <<"no specific action items identified.">>,
     <<"-", " ", "x", " ", "NO ACTION ITEMS">>,
     <<"-", " ", "no specific action items">>}

\* response.choices[0].message.content, as its lines.
Responses == UNION {[1..n -> ResponseLines] : n \in 0..MaxLines}

\* `phrase in token` for lower-cased tokens and the two phrases tested.
PhraseIn(phrase, token) ==
    \/ phrase = "no specific action items"
         /\ token \in {"no specific action items identified.",
                       "no specific action items"}
    \/ phrase = "no action items" /\ token = "no action items"

\* `phrase in content.lower()`.
ContainsPhrase(content, phrase) ==
    \E i \in 1..Len(content) : \E k \in 1..Len(content[i]) :
        PhraseIn(phrase, Lower(content[i][k]))

RECURSIVE LStrip(_)
\* str.lstrip() of a line.
LStrip(line) ==
    IF line = <<>> THEN <<>>
    ELSE IF Head(line) = " " THEN LStrip(Tail(line)) ELSE line

RECURSIVE RStrip(_)
\* str.rstrip() of a line.
RStrip(line) ==
    IF line = <<>> THEN <<>>
    ELSE IF line[Len(line)] = " " THEN RStrip(SubSeq(line, 1, Len(line) - 1))
    ELSE line

\* str.strip() of a line.
Strip(line) == RStrip(LStrip(line))

RECURSIVE LStripContent(_)
\* str.lstrip() of a whole response: blank lines at the start go, and the
\* blanks that start the first line left.
LStripContent(content) ==
    IF content = <<>> THEN <<>>
    ELSE IF LStrip(Head(content)) = <<>> /\ Len(content) > 1
    THEN LStripContent(Tail(content))
    ELSE <<LStrip(Head(content))>> \o Tail(content)

RECURSIVE RStripContent(_)
\* str.rstrip() of a whole response.
RStripContent(content) ==
    IF content = <<>> THEN <<>>
    ELSE LET n == Len(content)
         IN  IF RStrip(content[n]) = <<>> /\ n > 1
             THEN RStripContent(SubSeq(content, 1, n - 1))
             ELSE SubSeq(content, 1, n - 1) \o <<RStrip(content[n])>>

\* line.startswith(c).
StartsWith(line, c) == line # <<>> /\ Head(line) = c

RECURSIVE ParseLines(_, _)
\* The loop over content.split('\n').
ParseLines(lines, action_items) ==
    IF lines = <<>> THEN action_items
    ELSE LET line == Strip(Head(lines))
         IN  IF StartsWith(line, "-") \/ StartsWith(line, "U+2022")
             THEN LET item == Strip(Tail(line))
                  IN  ParseLines(Tail(lines),
                                 IF item # <<>> THEN Append(action_items, item)
                                 ELSE action_items)
             ELSE ParseLines(Tail(lines), action_items)

\* Mutant of extract_action_items_with_openai: only the first phrase is
\* looked for.
extract_action_items_one_phrase(response) ==
    LET content == RStripContent(LStripContent(response))
    IN  IF ContainsPhrase(content, "no specific action items")
        THEN <<>>
        ELSE ParseLines(content, <<>>)

\* What extract_action_items_with_openai returns when the language model
\* answers with `response`.
extract_action_items_with_openai(response) ==
    LET content == RStripContent(LStripContent(response))
    IN  IF \/ ContainsPhrase(content, "no specific action items")
           \/ ContainsPhrase(content, "no action items")
        THEN <<>>
        ELSE ParseLines(content, <<>>)

InitActionItems ==
    \E response \in Responses :
        call = [fn |-> "action_items", arg |-> response, done |-> FALSE]

CallActionItems ==
    /\ call.fn = "action_items" /\ ~call.done
    /\ Returned(extract_action_items_with_openai(call.arg))
    /\ CallUnchanged

InitCalls ==
    /\ CallStart
    /\ \/ InitDriveLookup
       \/ InitLoadConfig
       \/ InitConfigure
       \/ InitMain
       \/ InitActionItems

NextCalls ==
    \/ CallDriveLookup
    \/ CallLoadConfig
    \/ CallConfigure
    \/ CallMain
    \/ CallActionItems

SpecCalls == InitCalls /\ [][NextCalls]_vars

\* ================================================================ claims
\* The thread's job is an active or finished pipeline run.
Running(t) == pc[t] = "pipeline"

\* C1: two creation events for one path, the second delivered before the
\* handling of the first has finished, lead to one invocation of
\* process_video_file for that path, never to a second one.
C1_OneInvocationPerBurst == \A n \in VideoNames : burstInv[n] <= 1

\* C2: whatever the interleaving of the on_created callbacks, no two
\* pipeline runs are in progress for the same path at the same time.
C2_NoTwoRunsOfOnePath ==
    \A t1, t2 \in Threads :
        (t1 # t2 /\ Running(t1) /\ Running(t2)) => file_path[t1] # file_path[t2]

\* C3: once the handling of an event has ended, whatever the outcome of
\* its job, its path is no longer in the processing set.
C3_RemovedWhenHandlingEnds ==
    (\A t \in Threads : pc[t] \in {"idle", "dead"}) => processing = {}

\* C4: a job that fails fatally aborts alone: the thread that dispatches
\* the creation events is still there to process the next one.
C4_WatcherSurvivesFatalJob ==
    \A t \in Threads : job[t].stage \in {"Failed", "Exited"} => pc[t] # "dead"

\* The position of a stage in the order of the pipeline.
StageRank(st) ==
    CASE st = "Transcribing" -> 1
      [] st = "Summarizing" -> 2
      [] st = "Relocating" -> 3
      [] st = "Notifying" -> 4
      [] OTHER -> 5

Terminal(st) == st \in {"Done", "Failed", "Exited"}

\* C5: a job enters its stages in the order Transcribing, Summarizing,
\* Relocating, Notifying, Done (skipping, never reordering); it fails only
\* from Transcribing or Relocating, and does nothing after Done or Failed.
C5_StageOrder ==
    \A t \in Threads :
        LET tr == job[t].trace
        IN  \A i \in 1..(Len(tr) - 1) :
                /\ ~Terminal(tr[i])
                /\ StageRank(tr[i]) < StageRank(tr[i + 1])
                /\ tr[i + 1] \in {"Failed", "Exited"}
                     => tr[i] \in {"Transcribing", "Relocating"}

\* Stage st occurs in the trace tr.
Entered(tr, st) == \E i \in 1..Len(tr) : tr[i] = st

\* C6: a failure inside Summarizing or Notifying never fails the job: a job
\* that entered Summarizing fails only after it has gone on to relocation,
\* and a job that entered Notifying ends in Done.
C6_DegradedStagesNeverFail ==
    \A t \in Threads :
        LET tr == job[t].trace
        IN  /\ (Entered(tr, "Summarizing") /\ job[t].stage = "Failed")
                 => Entered(tr, "Relocating")
            /\ Entered(tr, "Notifying") => job[t].stage \in {"Notifying", "Done"}

\* The artifacts of job j in the order move_files_to_destination moves them.
Artifacts(j) ==
    <<j.video, j.transcript_file>> \o
    (IF j.summary_file = NoPath THEN <<>> ELSE <<j.summary_file>>)

\* Where relocation puts artifact p of job j.
Destination(j, p) == InFolder(VideoFolder(j.video, config), p)

\* The number of artifacts moved before the step that raised (1 mkdir,
\* 2 video, 3 transcript, 4 summary).
MovedBefore(step) == IF step <= 2 THEN 0 ELSE step - 2

\* C7: when relocation raises partway, the job is failed, no notification
\* is attempted, the artifacts moved before the failing step are at their
\* destination and the others are still at their source (no rollback).
C7_PartialRelocationStays ==
    \A t \in Threads :
        job[t].relocated = "raised" =>
            /\ job[t].stage = "Failed"
            /\ job[t].notify_calls = 0
            /\ job[t].notified.posts = <<>>
            /\ LET a == Artifacts(job[t])
                   k == MovedBefore(job[t].raised_at)
               IN  /\ \A i \in 1..k :
                          /\ Exists(fs, Destination(job[t], a[i]))
                          /\ fs[Destination(job[t], a[i])] = PathName(job[t].video)
                   /\ \A i \in (k + 1)..Len(a) :
                          /\ Exists(fs, a[i])
                          /\ fs[a[i]] = PathName(job[t].video)

\* C7 witness: relocation raised after the video had been moved.
C7_Witness ==
    \E t \in Threads :
        /\ job[t].relocated = "raised"
        /\ job[t].raised_at = 4
        /\ Exists(fs, Destination(job[t], job[t].transcript_file))
        /\ Exists(fs, job[t].summary_file)

\* C8: a successful move_files_to_destination leaves every artifact that
\* existed at <destination>/<video-basename>/<its name>, with its content,
\* and none at its source; a summary path that is None or names no file is
\* skipped and has no entry in the returned mapping.
C8_RelocationMovesAll ==
    [][\A t \in Threads :
         (job[t].stage = "Relocating" /\ job'[t].relocated = "ok") =>
            LET j == job[t]
                moved == job'[t].moved_files
                Placed(key, p) ==
                    IF p # NoPath /\ Exists(fs, p)
                    THEN /\ key \in DOMAIN moved
                         /\ moved[key] = Destination(j, p)
                         /\ Exists(fs', Destination(j, p))
                         /\ fs'[Destination(j, p)] = fs[p]
                         /\ ~Exists(fs', p)
                    ELSE key \notin DOMAIN moved
            IN  /\ Placed("video", j.video)
                /\ Placed("transcript", j.transcript_file)
                /\ Placed("summary", j.summary_file)
                /\ moved["folder"] = VideoFolder(j.video, config)]_vars

\* C8 witness: a relocation that succeeded with a summary path naming no
\* file (the transcript moved, the summary skipped).
C8_Witness ==
    \E t \in Threads :
        /\ job[t].relocated = "ok"
        /\ job[t].summary_file # NoPath
        /\ "summary" \notin DOMAIN job[t].moved_files
        /\ "transcript" \in DOMAIN job[t].moved_files

\* C9: with no openai_api_key configured a job makes no language-model
\* call, writes no summary file, has no title, no description and no action
\* item, and goes from Transcribing straight to relocation (or to Done when
\* no destination is configured) without failing for it.
C9_NoKeyNoLanguageModel ==
    ~Truthy(config.openai_api_key) =>
        /\ \A p \in DOMAIN fs : p[3][2] # "_summary"
        /\ \A t \in Threads :
            LET j == job[t]
            IN  /\ j.llm = <<>>
                /\ j.summary_file = NoPath
                /\ j.title = "None" /\ j.description = "None"
                /\ j.action_items = <<>>
                /\ ~Entered(j.trace, "Summarizing")
                /\ (j.transcript_file # NoPath /\ Len(j.trace) >= 2) =>
                       j.trace[2] = (IF Truthy(config.destination_directory)
                                     THEN "Relocating" ELSE "Done")

\* C9 witness: a job run without a key has reached relocation.
C9_Witness ==
    /\ ~Truthy(config.openai_api_key)
    /\ \E t \in Threads : job[t].stage = "Relocating"

\* The number of posts of n made through channel via.
Posts(n, via) == Cardinality({i \in 1..Len(n.posts) : n.posts[i].via = via})

\* C10: the notifier posts once through the token-authenticated API (and
\* not to the webhook) when bot token and channel id are both configured,
\* else once to the webhook when a webhook URL is configured, else it
\* attempts no post and does nothing.
C10_ChannelSelection ==
    \A t \in Threads :
        job[t].notify_calls > 0 =>
            LET n == job[t].notified
            IN  IF Truthy(config.slack_bot_token) /\ Truthy(config.slack_channel_id)
                THEN Posts(n, "api") = 1 /\ Posts(n, "webhook") = 0
                ELSE IF Truthy(config.slack_webhook_url)
                THEN Posts(n, "webhook") = 1 /\ Posts(n, "api") = 0
                ELSE n = NotifierNoOp


\* The first attempt (1-based) whose query does not come back empty, or
\* max_retries + 1 when every query comes back empty.
FirstAnswer(d) ==
    IF \A i \in 1..max_retries : d.responses[i] = "empty" THEN max_retries + 1
    ELSE CHOOSE i \in 1..max_retries :
            /\ d.responses[i] # "empty"
            /\ \A k \in 1..(i - 1) : d.responses[k] = "empty"

\* C11: get_google_drive_folder_url issues at most max_retries queries,
\* waits the delay only between two attempts, stops at the first query that
\* does not come back empty and returns the URL of that result's first
\* match; it returns no URL after max_retries empty results or as soon as
\* the authentication or a query raises, and nothing it raised reaches the
\* caller as anything but this result.
C11_BoundedFolderLookup ==
    (call.fn = "drive" /\ call.done) =>
        LET d == call.arg
            r == call.result
            n == FirstAnswer(d)
        IN  /\ r.queries <= max_retries
            /\ r.sleeps = (IF r.queries = 0 THEN 0 ELSE r.queries - 1)
            /\ r.url \in {"None", "drive"}
            /\ IF ~d.auth_ok THEN r.queries = 0 /\ r.url = "None"
               ELSE IF n > max_retries
               THEN r.queries = max_retries /\ r.url = "None" /\ ~r.raised
               ELSE /\ r.queries = n
                    /\ IF d.responses[n] = "found"
                       THEN r.url = "drive" /\ r.folder_id = <<n, 1>>
                       ELSE r.url = "None" /\ r.raised

\* C11 witness: the folder was found by the last allowed query, after nine
\* delays.
C11_Witness ==
    /\ call.fn = "drive" /\ call.done
    /\ call.result.url = "drive"
    /\ call.result.queries = max_retries
    /\ call.result.sleeps = max_retries - 1


\* C12: with no configuration file, load_config writes a file holding
\* every default key with its default value and returns that mapping; with
\* a file that holds a mapping lacking some of the default keys, it returns
\* the file's keys with the file's values plus exactly the missing default
\* keys with their default values.
C12_LoadConfigBackFills ==
    (call.fn = "load_config" /\ call.done) =>
        LET doc == call.arg
            r == call.result
        IN  /\ doc.kind = "absent" =>
                /\ ~r.raised
                /\ ~r.file.none
                /\ DOMAIN r.file.map = DefaultKeys
                /\ \A k \in DefaultKeys : r.file.map[k] = DefaultValue(k)
                /\ r.config = r.file.map
            /\ doc.kind = "mapping" =>
                /\ ~r.raised
                /\ DOMAIN r.config = DOMAIN doc.map \cup DefaultKeys
                /\ \A k \in DOMAIN doc.map : r.config[k] = <<doc.map[k], k>>
                /\ \A k \in DefaultKeys \ DOMAIN doc.map :
                       r.config[k] = DefaultValue(k)
                /\ r.file.map = DocumentMap(doc)

\* C12 witness: a file that lacks default keys, holds a user-set value for
\* another and holds a key unknown to the defaults has been loaded.
C12_Witness ==
    /\ call.fn = "load_config" /\ call.done
    /\ call.arg.kind = "mapping"
    /\ "openai_api_key" \notin DOMAIN call.arg.map
    /\ "slack_bot_token" \in DOMAIN call.arg.map
    /\ "watch_directory" \in DOMAIN call.arg.map
    /\ call.arg.map["watch_directory"] = "user"
    /\ call.result.config["watch_directory"] = UserValue("watch_directory")

\* C13: load_config returns a mapping holding every default key whatever
\* the state of the file: absent, present but empty, present with some of
\* the keys, present with all of them.
C13_LoadConfigAlwaysComplete ==
    (call.fn = "load_config" /\ call.done) =>
        /\ ~call.result.raised
        /\ DefaultKeys \subseteq DOMAIN call.result.config

\* C14: what the config command prints depends on a credential only
\* through whether it is set: two configurations that differ only in the
\* non-empty values of credentials are printed identically.
C14_CredentialsMasked ==
    (call.fn = "configure" /\ call.done) =>
        LET c1 == call.arg[1]
            c2 == call.arg[2]
        IN  (/\ \A k \in DOMAIN c1 \ CredentialKeys : c1[k] = c2[k]
             /\ \A k \in CredentialKeys : Truthy(c1[k]) <=> Truthy(c2[k]))
               => call.result[1] = call.result[2]

\* C15 as stated: `process <file>` processes <file>, and exits with
\* status 1 without processing exactly when <file> does not exist; the help
\* commands exit with status 0; any other unrecognized first argument is
\* the file to process.
C15_ProcessCommand ==
    (/\ call.fn = "main" /\ call.done /\ Len(call.arg.args) >= 1
     /\ call.arg.doc.kind # "empty") =>
        LET args == call.arg.args
            r == call.result
        IN  /\ args[1] \in HelpCommands => (r.exits /\ r.status = 0)
            /\ (args[1] = "process" /\ Len(args) = 2) =>
                  /\ args[2] \in call.arg.existing =>
                         (r.does = "process_video_file" /\ r.target = args[2])
                  /\ args[2] \notin call.arg.existing <=>
                         (r.exits /\ r.status = 1 /\ r.does # "process_video_file")
            /\ args[1] \notin Commands \cup {"process"} => r.target = args[1]

\* C15 as amended: there is no `process` command.  A first argument that
\* is none of help, -h, --help, config, setup-daemon, watch (the word
\* `process` included) is the path of the file to process: main reports it
\* as not found and exits with status 1, before loading the configuration
\* or running the pipeline, exactly when it does not exist, and otherwise
\* loads the configuration and, when a configuration is returned, runs the
\* pipeline on it; the help commands exit with status 0.
C15_FirstArgumentIsTheFile ==
    (call.fn = "main" /\ call.done /\ Len(call.arg.args) >= 1) =>
        LET args == call.arg.args
            r == call.result
        IN  /\ args[1] \in HelpCommands => (r.exits /\ r.status = 0)
            /\ args[1] \notin Commands =>
                  /\ args[1] \notin call.arg.existing <=>
                         (/\ r.exits /\ r.status = 1
                          /\ r.does = "file_not_found" /\ r.target = args[1])
                  /\ (/\ args[1] \in call.arg.existing
                      /\ ~load_config(call.arg.doc).raised) =>
                         /\ r.does = "process_video_file"
                         /\ r.target = args[1]
                         /\ ~r.exits

\* C15 witness: `process a.mp4` was run where a file named process exists,
\* and that file was processed.
C15_Witness ==
    /\ call.fn = "main" /\ call.done
    /\ call.arg.args = <<"process", "a.mp4">>
    /\ call.result.does = "process_video_file"
    /\ call.result.target = "process"


\* The text of a line after its bullet marker, trimmed.
ItemText(line) == Strip(Tail(Strip(line)))

\* A line whose first non-blank character is a bullet marker and whose
\* text is not empty.
IsItemLine(line) ==
    /\ Strip(line) # <<>>
    /\ Head(Strip(line)) \in {"-", "U+2022"}
    /\ ItemText(line) # <<>>

\* The trimmed texts of the item lines of a response, in order.
ItemTexts(response) ==
    LET chosen == SelectSeq(response, IsItemLine)
    IN  [i \in 1..Len(chosen) |-> ItemText(chosen[i])]

\* The response holds token w in some casing.
Mentions(response, w) ==
    \E i \in 1..Len(response) : \E k \in 1..Len(response[i]) :
        Lower(response[i][k]) = w

\* C17 as stated: a response containing the sentinel "no specific action
\* items identified" yields the empty list, and any other response yields
\* exactly the non-empty trimmed texts of its bullet-prefixed lines, in
\* order.
C17_SentinelOrBullets ==
    (call.fn = "action_items" /\ call.done) =>
        IF Mentions(call.arg, "no specific action items identified.")
        THEN call.result = <<>>
        ELSE call.result = ItemTexts(call.arg)

\* C17 as amended: a response containing, in any casing, "no specific
\* action items" or "no action items" yields the empty list, and any other
\* response yields exactly the non-empty trimmed texts of its
\* bullet-prefixed lines, in order.
C17_EitherPhraseOrBullets ==
    (call.fn = "action_items" /\ call.done) =>
        IF \/ Mentions(call.arg, "no specific action items identified.")
           \/ Mentions(call.arg, "no specific action items")
           \/ Mentions(call.arg, "no action items")
        THEN call.result = <<>>
        ELSE call.result = ItemTexts(call.arg)

\* C17 witness: a response of three bullet-prefixed lines, one of them
\* indented, gave three items in the order of the lines.
C17_Witness ==
    /\ call.fn = "action_items" /\ call.done
    /\ call.arg = <<<<" ", " ", "-", " ", "x", " ">>, <<"U+2022", " ", "y">>,
                    <<"-", "-", "x">>>>
    /\ call.result = <<<<"x">>, <<"y">>, <<"-", "x">>>>


\* The suffix of path equals an entry of the allow-list, letter case aside.
MatchesIgnoringCase(path, cfg) ==
    \E e \in cfg.video_extensions : Lower(e) = Lower(PathSuffix(path))

\* The path is one a handler has accepted: it is in the processing set, a
\* handler is past the filter with it, or the pipeline has run on it since
\* its last burst of events began.
Accepted(path) ==
    \/ path \in processing
    \/ \E t \in Threads : file_path[t] = path \/ job[t].video = path
    \/ \E n \in VideoNames : path = WatchedPath(n) /\ burstInv[n] > 0

\* C16: no path whose suffix is outside the allow-list, compared without
\* regard to case, and no directory is ever added to the processing set or
\* handed to the pipeline.
C16_OnlyAllowListedFiles ==
    \A n \in VideoNames \cup DirectoryNames :
        Accepted(WatchedPath(n)) =>
            /\ n \notin DirectoryNames
            /\ MatchesIgnoringCase(WatchedPath(n), config)

\* C16 witness: two creation events, one of a .txt file and the other of a
\* directory or of the .txt file again, have been handled, and nothing was
\* accepted.
C16_Witness ==
    /\ Exists(fs, WatchedPath(<<"n", "", ".txt">>))
    /\ delivered = 2
    /\ queue = <<>>
    /\ processing = {}
    /\ \A t \in Threads : pc[t] = "idle"
    /\ \A n \in VideoNames : burstInv[n] = 0 /\ (n[3] # ".txt" => ~Exists(fs, WatchedPath(n)))

\* C18: the temporary waveform file exists only while transcribe_video is
\* between the audio extraction and the end of the recognizer call: it is
\* gone once transcribe_video is left, whether by return, by an exception
\* or by the process exit.
C18_TemporaryFileRemoved ==
    \A t \in Threads :
        job[t].audio => (job[t].stage = "Transcribing" /\ job[t].sub = "recognize")

\* C18 witness: the converter or the recognizer failed after the temporary
\* file had been created, and the process exit left no temporary file.
C18_Witness ==
    \E t \in Threads :
        /\ job[t].stage = "Exited"
        /\ job[t].sub = ""
        /\ pc[t] = "dead"
        /\ ~job[t].audio

\* A handler is between taking its event and returning.
InHandler(t) == pc[t] \in {"add", "settle", "pipeline"}

\* C19: at most one handler, and so at most one pipeline run, is in
\* progress at any time, and an event is taken from the queue only when no
\* handler is in progress.
C19_OneHandlerAtATime ==
    /\ [](\A t, u \in Threads : (InHandler(t) /\ InHandler(u)) => t = u)
    /\ [][(queue # <<>> /\ queue' = Tail(queue)) =>
              \A t \in Threads : ~InHandler(t)]_vars

\* C19 witness: a second event waits in the queue while the pipeline runs
\* for the first.
C19_Witness ==
    /\ queue # <<>>
    /\ \E t \in Threads : pc[t] = "pipeline" /\ job[t].stage = "Summarizing"

\* C20: a creation event for a file whose suffix equals an allow-list
\* entry, letter case aside, and whose path is not being processed, is
\* accepted: the handler goes on to add the path to the processing set.
C20_FilterIgnoresCaseBothWays ==
    [][(/\ queue # <<>> /\ queue' = Tail(queue)
        /\ ~Head(queue).is_directory
        /\ Head(queue).src_path \notin processing
        /\ MatchesIgnoringCase(Head(queue).src_path, config))
          => \E t \in Threads :
                 pc'[t] = "add" /\ file_path'[t] = Head(queue).src_path]_vars


\* The job has reached the notification: the call is about to be made or
\* has been made.
NotificationReached(j) ==
    j.stage = "Notifying" \/ j.notify_calls > 0 \/ j.notified # NotifierNoOp

\* C21: a job reaches the notification only with a destination configured
\* and after its relocation has returned normally; the folder handed to the
\* notifier and linked in every message is the folder relocation returned;
\* and at the moment relocation hands over to the notification no artifact
\* of the job is at its source and each is in that folder.
C21_NotifyOnlyAfterRelocation ==
    /\ [](\A t \in Threads :
            NotificationReached(job[t]) =>
                /\ Truthy(config.destination_directory)
                /\ job[t].relocated = "ok"
                /\ Entered(job[t].trace, "Relocating")
                /\ job[t].moved_files["folder"] = VideoFolder(job[t].video, config)
                /\ \A i \in 1..Len(job[t].notified.posts) :
                       job[t].notified.posts[i].message.link[2] =
                           job[t].moved_files["folder"])
    /\ [][\A t \in Threads :
            (job[t].stage # "Notifying" /\ job'[t].stage = "Notifying") =>
                /\ job[t].stage = "Relocating"
                /\ \A i \in 1..Len(Artifacts(job'[t])) :
                       LET a == Artifacts(job'[t])[i]
                       IN  /\ ~Exists(fs', a)
                           /\ Exists(fs', InFolder(job'[t].moved_files["folder"], a))]_vars

\* C21 witness: a job with a summary has been relocated and then notified
\* with a message that links the relocation folder.
C21_Witness ==
    \E t \in Threads :
        /\ job[t].stage = "Done"
        /\ job[t].relocated = "ok"
        /\ job[t].summary_file # NoPath
        /\ job[t].notify_calls = 1
        /\ Len(job[t].notified.posts) = 1
        /\ job[t].notified.sent


\* How far a job has come: one rank per external call or write of the
\* pipeline, in the order process_video_file makes them.
Progress(j) ==
    CASE j.stage = "Idle" -> 0
      [] j.stage = "Transcribing" /\ j.sub = "extract" -> 1
      [] j.stage = "Transcribing" /\ j.sub = "recognize" -> 2
      [] j.stage = "Transcribing" /\ j.sub = "save" -> 3
      [] j.stage = "Summarizing" /\ j.sub = "summary" -> 4
      [] j.stage = "Summarizing" /\ j.sub = "title" -> 5
      [] j.stage = "Summarizing" /\ j.sub = "actions" -> 6
      [] j.stage = "Relocating" -> 7
      [] j.stage = "Notifying" -> 8
      [] OTHER -> 9

\* No element occurs twice in sequence q.
NoRepeat(q) == \A i, k \in 1..Len(q) : q[i] = q[k] => i = k

\* C22: when every external call returns or fails, every job that has
\* started ends in Done or in failure (Failed, or the exit of the thread
\* that ran it); every step of a job takes it further along the pipeline,
\* so no stage and no call is made twice; the only repeated call is the
\* folder query, at most max_retries times.
C22_JobsTerminateWithoutRetry ==
    /\ \A t \in SerialThreads : (pc[t] = "pipeline") ~> Terminal(job[t].stage)
    /\ [][\A t \in Threads :
            (pc[t] = "pipeline" /\ job'[t] # job[t] /\ job'[t] # IdleJob) =>
                Progress(job'[t]) > Progress(job[t])]_vars
    /\ [](\A t \in Threads :
            /\ NoRepeat(job[t].trace)
            /\ NoRepeat(job[t].llm)
            /\ job[t].notify_calls <= 1
            /\ job[t].notified.lookups <= 1
            /\ job[t].notified.queries <= max_retries
            /\ Len(job[t].notified.posts) <= 1)

\* C22 witness: a job went through every stage, its folder search used
\* every attempt, and it is Done.
C22_Witness ==
    \E t \in Threads :
        /\ job[t].stage = "Done"
        /\ job[t].trace = <<"Transcribing", "Summarizing", "Relocating",
                            "Notifying", "Done">>
        /\ job[t].llm = <<"summarize", "title", "actions">>
        /\ job[t].notified.queries = max_retries


\* C23: the pipeline is entered only from the settle delay and only for a
\* file that exists when the delay ends; when the file is gone by then, no
\* pipeline run is started and the path leaves the processing set, so that
\* no path stays in the set while the dispatching thread is idle and a
\* later event for the path passes the membership test.
C23_SettleThenRecheck ==
    /\ [][\A t \in Threads :
            /\ (pc[t] # "pipeline" /\ pc'[t] = "pipeline") =>
                   /\ pc[t] = "settle"
                   /\ Exists(fs, file_path[t])
                   /\ job'[t].video = file_path[t]
            /\ (pc[t] = "settle" /\ pc'[t] # "settle"
                  /\ ~Exists(fs, file_path[t])) =>
                   /\ pc'[t] = "idle"
                   /\ job'[t] = IdleJob
                   /\ burstInv' = burstInv
                   /\ file_path[t] \notin processing']_vars
    /\ [](\A t \in SerialThreads : pc[t] = "idle" => processing = {})
    /\ [][\A t \in SerialThreads :
            (/\ pc[t] = "idle" /\ queue # <<>> /\ queue' = Tail(queue)
             /\ ~Head(queue).is_directory
             /\ IsVideoFile(Head(queue).src_path, config))
               => (pc'[t] = "add" /\ file_path'[t] = Head(queue).src_path)]_vars

\* C23 witness: a file was created twice and disappeared during the settle
\* delay of its first event; the handler has returned without a pipeline
\* run, the processing set is empty and the second event is waiting.
C23_Witness ==
    /\ fs = <<>>
    /\ delivered = 2
    /\ queue = <<[src_path |-> WatchedPath(<<"a", "", ".mp4">>),
                 is_directory |-> FALSE]>>
    /\ processing = {}
    /\ \A t \in Threads : pc[t] = "idle" /\ job[t] = IdleJob
    /\ \A n \in VideoNames : burstInv[n] = 0


\* The job of the video named n has been relocated in full: its summary,
\* the artifact moved last, is at the destination.
FullyRelocated(f, n) ==
    LET summary == ArtifactBeside(WatchedPath(n), "_summary")
        at == InFolder(VideoFolder(WatchedPath(n), config), summary)
    IN  Exists(f, at) /\ f[at] = n

\* C24: a relocation that succeeds leaves every artifact of every other
\* video whose job was relocated in full at its destination path with its
\* own content.
C24_NoRelocatedArtifactOverwritten ==
    [][\A t \in Threads :
         (job[t].stage = "Relocating" /\ job'[t].relocated = "ok") =>
             \A n \in VideoNames \ {PathName(job[t].video)} :
                 FullyRelocated(fs, n) =>
                     \A p \in DOMAIN fs :
                         (p[1] = config.destination_directory /\ fs[p] = n) =>
                             (Exists(fs', p) /\ fs'[p] = n)]_vars

====
